---- MODULE Spec2Model ----
(***************************************************************************)
(* Model of server/src/lib/lazy-cache.ts: a lazy, stale-while-revalidate   *)
(* cache around an asynchronous function f, with an in-process backend      *)
(* (memoryCache) and a store-and-lock backend (redisCache /                 *)
(* renewRedisCache), selected by the facade lazyCache.                      *)
(*                                                                         *)
(* One process with a single-threaded event loop is modelled: every action *)
(* is the synchronous run of code between two suspension points (await).   *)
(***************************************************************************)
EXTENDS Integers, Sequences, FiniteSets

VARIABLES
    now,        \* Date.now()
    useRedis,   \* the settled value of the useRedis promise of ./redis
    caches,     \* memoryCache: the caches object, key -> {at, value, promise}
    comps,      \* memoryCache: the promises created at line 28, with the invocation of f each one runs
    store,      \* the key-value store behind redis.get / redis.set
    lock,       \* the redlock resource key + '-lock': 0 when free, else the holding renewal
    renewals,   \* renewRedisCache: the promises created at line 47
    calls       \* history: every call of the wrapped function with its returned promise

vars == <<now, useRedis, caches, comps, store, lock, renewals, calls>>

----------------------------------------------------------------------------
(* Bounds of the model *)

MaxCalls == 3       \* calls of the wrapped function in one behaviour, memory backend
MaxRedisCalls == 2  \* calls of the wrapped function in one behaviour, distributed backend
MaxTime == 4        \* the clock runs over 0..MaxTime, memory backend
MaxRedisTime == 2   \* the clock runs over 0..MaxRedisTime, distributed backend
MaxVal == 1         \* f resolves to a value in 0..MaxVal
NumArgs == 1        \* distinct argument tuples the wrapped function is called with
timeMs == 1         \* the timeMs (stale-after) argument of lazyCache

Args == 1..NumArgs
FValues == 0..MaxVal

cacheKey == "ns"    \* the cacheKey argument of lazyCache

(* JavaScript values.  f's results are the integers 0..MaxVal, of which 0  *)
(* stands for the falsy ones (0, false, '', null).                         *)
Undefined == -1
NaN == -2

Truthy(v) == v > 0

\* a - b in JavaScript, for a number a and a number-or-undefined b
Minus(a, b) == IF b = Undefined THEN NaN ELSE a - b

\* a > b in JavaScript: any comparison with NaN is false
Greater(a, b) == a # NaN /\ a > b

\* JSON.stringify(args): the arguments in brackets
JSON_stringify_args(a) == <<"[", a, "]">>

\* JSON.stringify({at, value}): a member whose value is undefined is left out
JSON_stringify(rec) ==
    IF rec.value = Undefined THEN <<"at", rec.at>>
    ELSE <<"at", rec.at, "value", rec.value>>

\* JSON.parse of such a text
JSON_parse(text) ==
    [at |-> text[2], value |-> IF Len(text) = 4 THEN text[4] ELSE Undefined]

\* variant of isExpired: >= in place of >
isExpired_atBoundary(at, ms) == Minus(now, at) # NaN /\ Minus(now, at) >= ms

\* variant of isExpired: < in place of >
isExpired_inverted(at, ms) == Minus(now, at) # NaN /\ Minus(now, at) < ms

\* isExpired, lines 5-7
isExpired(at, ms) == Greater(Minus(now, at), ms)

MemKeys == {JSON_stringify_args(a) : a \in Args}
RedisKey(a) == <<cacheKey>> \o JSON_stringify_args(a)
RedisKeys == {RedisKey(a) : a \in Args}

----------------------------------------------------------------------------
(* The record of a call: what the caller holds.                            *)
(*   pc       "await"    its promise follows the promise / renewal p       *)
(*            "resolved" its promise is fulfilled with ret                 *)
(*            "rejected" its promise is rejected                           *)
(* seen, old, oldAt, fl and started record what the call found and did; t  *)
(* is the time of the call, kept for the calls of the memory backend.      *)

NewCall(be, a, pc, ret, p, seen, old, oldAt, fl, started) ==
    [be |-> be, args |-> a, t |-> IF be = "mem" THEN now ELSE Undefined,
     pc |-> pc, ret |-> ret, p |-> p,
     seen |-> seen, old |-> old, oldAt |-> oldAt, fl |-> fl, started |-> started]

\* what a call of the memory backend finds for its key, before it acts
MemSeen(key) ==
    IF key \notin DOMAIN caches THEN "cold"
    ELSE LET c == caches[key] IN
         IF c.at = Undefined
         THEN (IF c.promise # 0 /\ comps[c.promise].pc = "running"
               THEN "coldInflight" ELSE "coldFailed")
         ELSE IF now - c.at <= timeMs THEN "fresh"
         ELSE IF c.promise = 0 THEN "stale"
         ELSE IF comps[c.promise].pc = "running" THEN "staleInflight"
         ELSE "staleFailed"

MemOld(key) == IF key \in DOMAIN caches THEN caches[key].value ELSE Undefined
MemOldAt(key) == IF key \in DOMAIN caches THEN caches[key].at ELSE Undefined
MemFl(key) == IF key \in DOMAIN caches THEN caches[key].promise ELSE 0

----------------------------------------------------------------------------
Init ==
    /\ now = 0
    /\ useRedis \in BOOLEAN
    /\ caches = [k \in {} |-> 0]
    /\ comps = <<>>
    /\ store = [k \in {} |-> 0]
    /\ lock = [k \in RedisKeys |-> 0]
    /\ renewals = <<>>
    /\ calls = <<>>

\* how far the clock runs in one behaviour
TimeBound == IF useRedis THEN MaxRedisTime ELSE MaxTime

\* the clock advances
Tick ==
    /\ now < TimeBound
    /\ now' = now + 1
    /\ UNCHANGED <<useRedis, caches, comps, store, lock, renewals, calls>>

----------------------------------------------------------------------------
(* memoryCache, lines 9-39 *)

\* lines 28-37 up to the await: a new promise whose executor reads
\* hasOldCache, resolves with the old value if there is one, evaluates
\* Date.now() and calls f; the promise is stored in cached.promise and
\* returned
StartComputation(a, key, cached) ==
    LET hasOldCache == cached.value
        p == Len(comps) + 1
    IN  /\ comps' = Append(comps, [key |-> key, args |-> a, at |-> now,
                                   hasOldCache |-> hasOldCache, pc |-> "running",
                                   state |-> IF Truthy(hasOldCache) THEN "resolved" ELSE "pending",
                                   value |-> IF Truthy(hasOldCache) THEN cached.value ELSE Undefined])
        /\ caches' = [k \in DOMAIN caches \cup {key} |->
                        IF k = key THEN [cached EXCEPT !.promise = p] ELSE caches[k]]
        /\ calls' = Append(calls,
                        NewCall("mem", a,
                                IF Truthy(hasOldCache) THEN "resolved" ELSE "await",
                                IF Truthy(hasOldCache) THEN cached.value ELSE Undefined,
                                p, MemSeen(key), MemOld(key), MemOldAt(key), MemFl(key), TRUE))

\* a call that returns v at once
ReturnValue(a, key, v) ==
    /\ calls' = Append(calls, NewCall("mem", a, "resolved", v, 0,
                                      MemSeen(key), MemOld(key), MemOldAt(key), MemFl(key), FALSE))
    /\ UNCHANGED <<caches, comps>>

\* a call that returns the promise p
ReturnPromise(a, key, p) ==
    /\ calls' = Append(calls,
                    NewCall("mem", a,
                            IF comps[p].state = "resolved" THEN "resolved" ELSE "await",
                            comps[p].value, p,
                            MemSeen(key), MemOld(key), MemOldAt(key), MemFl(key), FALSE))
    /\ UNCHANGED <<caches, comps>>

\* variant of memoryCache: line 23 left out
memoryCache_noInflightCheck(a) ==
    LET key == JSON_stringify_args(a) IN
    /\ IF key \in DOMAIN caches
       THEN LET cached == caches[key] IN
            IF ~isExpired(cached.at, timeMs)
            THEN ReturnValue(a, key, cached.value)
            ELSE StartComputation(a, key, cached)
       ELSE StartComputation(a, key, [at |-> Undefined, value |-> Undefined, promise |-> 0])
    /\ UNCHANGED <<now, useRedis, store, lock, renewals>>

\* variant of memoryCache: line 23 as  if (promise && value) return value;
\* a call that finds a falsy value starts a computation though one is running
memoryCache_restartOnFalsy(a) ==
    LET key == JSON_stringify_args(a) IN
    /\ IF key \in DOMAIN caches
       THEN LET cached == caches[key] IN
            IF ~isExpired(cached.at, timeMs)
            THEN ReturnValue(a, key, cached.value)
            ELSE IF cached.promise # 0 /\ Truthy(cached.value)
                 THEN ReturnValue(a, key, cached.value)
                 ELSE StartComputation(a, key, cached)
       ELSE StartComputation(a, key, [at |-> Undefined, value |-> Undefined, promise |-> 0])
    /\ UNCHANGED <<now, useRedis, store, lock, renewals>>

\* the wrapped function returned by memoryCache, lines 13-38
memoryCache(a) ==
    LET key == JSON_stringify_args(a) IN
    /\ IF key \in DOMAIN caches
       THEN LET cached == caches[key] IN
            IF ~isExpired(cached.at, timeMs)
            THEN ReturnValue(a, key, cached.value)
            ELSE IF cached.promise # 0
                 THEN (IF Truthy(cached.value)
                       THEN ReturnValue(a, key, cached.value)
                       ELSE ReturnPromise(a, key, cached.promise))
                 ELSE StartComputation(a, key, cached)
       ELSE StartComputation(a, key, [at |-> Undefined, value |-> Undefined, promise |-> 0])
    /\ UNCHANGED <<now, useRedis, store, lock, renewals>>

\* f resolves with v: lines 31-36 after the await.  Object.assign writes at
\* (read before the await), value and promise: null; without an old value
\* the promise is resolved with the value now cached
FResolved(p, v) ==
    /\ p \in DOMAIN comps
    /\ comps[p].pc = "running"
    /\ LET key == comps[p].key
           resolvesNow == ~Truthy(comps[p].hasOldCache) IN
       /\ caches' = [caches EXCEPT ![key] = [at |-> comps[p].at, value |-> v, promise |-> 0]]
       /\ comps' = [comps EXCEPT ![p] =
                      [@ EXCEPT !.pc = "done",
                                !.state = "resolved",
                                !.value = IF resolvesNow THEN v ELSE @]]
       /\ calls' = [i \in DOMAIN calls |->
                      IF calls[i].be = "mem" /\ calls[i].pc = "await" /\ calls[i].p = p
                      THEN [calls[i] EXCEPT !.pc = "resolved", !.ret = v]
                      ELSE calls[i]]
    /\ UNCHANGED <<now, useRedis, store, lock, renewals>>

\* variant of FRejected: at is assigned before the await, so a failed
\* renewal leaves the record with the renewal's start time
FRejected_resetsAt(p) ==
    /\ p \in DOMAIN comps
    /\ comps[p].pc = "running"
    /\ comps' = [comps EXCEPT ![p] = [@ EXCEPT !.pc = "failed"]]
    /\ caches' = [caches EXCEPT ![comps[p].key] = [@ EXCEPT !.at = comps[p].at]]
    /\ UNCHANGED <<now, useRedis, calls, store, lock, renewals>>

\* f rejects: the await at line 33 throws inside the async executor, whose
\* own promise nobody holds; nothing after line 33 runs
FRejected(p) ==
    /\ p \in DOMAIN comps
    /\ comps[p].pc = "running"
    /\ comps' = [comps EXCEPT ![p] = [@ EXCEPT !.pc = "failed"]]
    /\ UNCHANGED <<now, useRedis, caches, calls, store, lock, renewals>>

----------------------------------------------------------------------------
(* renewRedisCache, lines 41-60.  A renewal is the promise of line 47:     *)
(*   pc  "lock"    suspended in await redlock.lock                         *)
(*       "f"       holds the lock, suspended in await f(...args)           *)
(*       "set"     holds the lock, suspended in await redis.set            *)
(*       "unlock"  the store has taken the write, lines 56-57 not yet run  *)
(*       "done"    unlocked and resolved                                   *)
(*       "failed"  an await threw inside the async executor: the promise   *)
(*                 stays pending and nothing after the await runs          *)
(* caller is the call whose promise follows the renewal, 0 when nobody's.  *)

\* the named lock of the lock service: acquire is granted only while no
\* holder has it, and the lease does not run out
LockFree(key) == lock[key] = 0

\* lines 46-51 up to the await: the lock is requested
renewRedisCache(key, a, caller) ==
    renewals' = Append(renewals, [key |-> key, args |-> a, pc |-> "lock", value |-> Undefined,
                                  at |-> Undefined, caller |-> caller, failedAt |-> "none"])

\* variant of RenewLock: the renewal goes on without the lock being granted
RenewLock_noWait(r) ==
    /\ r \in DOMAIN renewals
    /\ renewals[r].pc = "lock"
    /\ lock' = [lock EXCEPT ![renewals[r].key] = r]
    /\ renewals' = [renewals EXCEPT ![r] = [@ EXCEPT !.pc = "f"]]
    /\ UNCHANGED <<now, useRedis, caches, comps, store, calls>>

\* variant of RenewLock: with the lock granted the store is read again, and a
\* renewal that finds a record that is not expired unlocks and resolves with
\* it instead of calling f
RenewLock_recheck(r) ==
    /\ r \in DOMAIN renewals
    /\ renewals[r].pc = "lock"
    /\ LockFree(renewals[r].key)
    /\ LET key == renewals[r].key IN
       IF key \in DOMAIN store /\ ~isExpired(JSON_parse(store[key]).at, timeMs)
       THEN /\ renewals' = [renewals EXCEPT ![r] = [@ EXCEPT !.pc = "done"]]
            /\ calls' = [i \in DOMAIN calls |->
                           IF i = renewals[r].caller
                           THEN [calls[i] EXCEPT !.pc = "resolved",
                                                 !.ret = JSON_parse(store[key]).value]
                           ELSE calls[i]]
            /\ UNCHANGED lock
       ELSE /\ lock' = [lock EXCEPT ![key] = r]
            /\ renewals' = [renewals EXCEPT ![r] = [@ EXCEPT !.pc = "f"]]
            /\ UNCHANGED calls
    /\ UNCHANGED <<now, useRedis, caches, comps, store>>

\* redlock.lock resolves: the renewal holds the lock and calls f, line 53
RenewLock(r) ==
    /\ r \in DOMAIN renewals
    /\ renewals[r].pc = "lock"
    /\ LockFree(renewals[r].key)
    /\ lock' = [lock EXCEPT ![renewals[r].key] = r]
    /\ renewals' = [renewals EXCEPT ![r] = [@ EXCEPT !.pc = "f"]]
    /\ UNCHANGED <<now, useRedis, caches, comps, store, calls>>

\* redlock.lock rejects
RenewLockFailed(r) ==
    /\ r \in DOMAIN renewals
    /\ renewals[r].pc = "lock"
    /\ renewals' = [renewals EXCEPT ![r] = [@ EXCEPT !.pc = "failed", !.failedAt = "lock"]]
    /\ UNCHANGED <<now, useRedis, caches, comps, store, lock, calls>>

\* f resolves with v: line 54 builds {at: Date.now(), value} and calls redis.set
RenewF(r, v) ==
    /\ r \in DOMAIN renewals
    /\ renewals[r].pc = "f"
    /\ renewals' = [renewals EXCEPT ![r] = [@ EXCEPT !.pc = "set", !.value = v, !.at = now]]
    /\ UNCHANGED <<now, useRedis, caches, comps, store, lock, calls>>

\* f rejects
RenewFFailed(r) ==
    /\ r \in DOMAIN renewals
    /\ renewals[r].pc = "f"
    /\ renewals' = [renewals EXCEPT ![r] = [@ EXCEPT !.pc = "failed", !.failedAt = "f"]]
    /\ UNCHANGED <<now, useRedis, caches, comps, store, lock, calls>>

\* variant of RenewSet: the store keeps the record it already has (SET NX),
\* so the first writer wins
RenewSet_ifAbsent(r) ==
    /\ r \in DOMAIN renewals
    /\ renewals[r].pc = "set"
    /\ LET key == renewals[r].key
           text == JSON_stringify([at |-> renewals[r].at, value |-> renewals[r].value]) IN
       store' = [k \in DOMAIN store \cup {key} |->
                    IF k = key /\ k \notin DOMAIN store THEN text ELSE store[k]]
    /\ renewals' = [renewals EXCEPT ![r] = [@ EXCEPT !.pc = "unlock"]]
    /\ UNCHANGED <<now, useRedis, caches, comps, lock, calls>>

\* the store takes the write of line 54
RenewSet(r) ==
    /\ r \in DOMAIN renewals
    /\ renewals[r].pc = "set"
    /\ LET key == renewals[r].key
           text == JSON_stringify([at |-> renewals[r].at, value |-> renewals[r].value]) IN
       store' = [k \in DOMAIN store \cup {key} |-> IF k = key THEN text ELSE store[k]]
    /\ renewals' = [renewals EXCEPT ![r] = [@ EXCEPT !.pc = "unlock"]]
    /\ UNCHANGED <<now, useRedis, caches, comps, lock, calls>>

\* redis.set rejects
RenewSetFailed(r) ==
    /\ r \in DOMAIN renewals
    /\ renewals[r].pc = "set"
    /\ renewals' = [renewals EXCEPT ![r] = [@ EXCEPT !.pc = "failed", !.failedAt = "set"]]
    /\ UNCHANGED <<now, useRedis, caches, comps, store, lock, calls>>

\* variant of RenewUnlock: resolve(value) without lock.unlock()
RenewUnlock_keepsLock(r) ==
    /\ r \in DOMAIN renewals
    /\ renewals[r].pc = "unlock"
    /\ renewals' = [renewals EXCEPT ![r] = [@ EXCEPT !.pc = "done"]]
    /\ calls' = [i \in DOMAIN calls |->
                   IF i = renewals[r].caller
                   THEN [calls[i] EXCEPT !.pc = "resolved", !.ret = renewals[r].value]
                   ELSE calls[i]]
    /\ UNCHANGED <<now, useRedis, caches, comps, store, lock>>

\* redis.set resolved: lines 56-57, lock.unlock() and resolve(value); the
\* promise of line 80 that awaits the renewal resolves with the same value
RenewUnlock(r) ==
    /\ r \in DOMAIN renewals
    /\ renewals[r].pc = "unlock"
    /\ lock' = [lock EXCEPT ![renewals[r].key] = IF @ = r THEN 0 ELSE @]
    /\ renewals' = [renewals EXCEPT ![r] = [@ EXCEPT !.pc = "done"]]
    /\ calls' = [i \in DOMAIN calls |->
                   IF i = renewals[r].caller
                   THEN [calls[i] EXCEPT !.pc = "resolved", !.ret = renewals[r].value]
                   ELSE calls[i]]
    /\ UNCHANGED <<now, useRedis, caches, comps, store>>

----------------------------------------------------------------------------
(* redisCache, lines 62-84 *)
(* The wrapped function suspends once, in await redis.get (line 69).  The  *)
(* request changes nothing, so the call is modelled by the step in which   *)
(* redis.get settles: the store is read and lines 71-82 run at the same    *)
(* clock value.                                                            *)

RedisCall(a) ==
    NewCall("redis", a, "await", Undefined, 0, "nothing", Undefined, Undefined, 0, FALSE)

\* variant of RedisGet: line 76 awaits the renewal it starts
RedisGet_awaitRenewal(a) ==
    LET key == RedisKey(a) IN
    IF key \in DOMAIN store
    THEN LET cached == JSON_parse(store[key]) IN
         IF isExpired(cached.at, timeMs)
         THEN /\ renewRedisCache(key, a, Len(calls) + 1)
              /\ calls' = Append(calls,
                     [RedisCall(a) EXCEPT !.pc = "await", !.p = Len(renewals) + 1,
                                          !.seen = "stale", !.old = cached.value,
                                          !.oldAt = cached.at, !.started = TRUE])
         ELSE /\ UNCHANGED renewals
              /\ calls' = Append(calls,
                     [RedisCall(a) EXCEPT !.pc = "resolved", !.ret = cached.value,
                                          !.seen = "fresh", !.old = cached.value,
                                          !.oldAt = cached.at])
    ELSE /\ renewRedisCache(key, a, Len(calls) + 1)
         /\ calls' = Append(calls,
                [RedisCall(a) EXCEPT !.pc = "await", !.p = Len(renewals) + 1,
                                     !.seen = "absent", !.started = TRUE])

\* variant of RedisGet: a stored record is renewed on every read
RedisGet_alwaysRenew(a) ==
    LET key == RedisKey(a) IN
    IF key \in DOMAIN store
    THEN LET cached == JSON_parse(store[key]) IN
         /\ renewRedisCache(key, a, 0)
         /\ calls' = Append(calls,
                [RedisCall(a) EXCEPT !.pc = "resolved", !.ret = cached.value,
                                     !.p = Len(renewals) + 1,
                                     !.seen = IF now - cached.at <= timeMs THEN "fresh" ELSE "stale",
                                     !.old = cached.value, !.oldAt = cached.at,
                                     !.started = TRUE])
    ELSE /\ renewRedisCache(key, a, Len(calls) + 1)
         /\ calls' = Append(calls,
                [RedisCall(a) EXCEPT !.pc = "await", !.p = Len(renewals) + 1,
                                     !.seen = "absent", !.started = TRUE])

\* redis.get resolves with the text stored under key, or with nothing:
\* lines 71-82.  A stored record is returned, and renewed without the
\* caller if expired; with nothing stored the caller's promise follows a
\* renewal
RedisGet(a) ==
    LET key == RedisKey(a) IN
    IF key \in DOMAIN store
    THEN LET cached == JSON_parse(store[key])
             expired == isExpired(cached.at, timeMs) IN
         /\ IF expired THEN renewRedisCache(key, a, 0) ELSE UNCHANGED renewals
         /\ calls' = Append(calls,
                [RedisCall(a) EXCEPT !.pc = "resolved", !.ret = cached.value,
                                     !.p = IF expired THEN Len(renewals) + 1 ELSE 0,
                                     !.seen = IF now - cached.at <= timeMs THEN "fresh" ELSE "stale",
                                     !.old = cached.value, !.oldAt = cached.at,
                                     !.started = expired])
    ELSE /\ renewRedisCache(key, a, Len(calls) + 1)
         /\ calls' = Append(calls,
                [RedisCall(a) EXCEPT !.pc = "await", !.p = Len(renewals) + 1,
                                     !.seen = "absent", !.started = TRUE])

\* redis.get rejects: the await at line 69 throws and the async function's
\* promise is rejected
RedisGetFailed(a) ==
    /\ calls' = Append(calls, [RedisCall(a) EXCEPT !.pc = "rejected", !.seen = "getFailed"])
    /\ UNCHANGED renewals

\* the wrapped function returned by redisCache, lines 67-83
redisCache(a) ==
    /\ RedisGet(a) \/ RedisGetFailed(a)
    /\ UNCHANGED <<now, useRedis, caches, comps, store, lock>>

----------------------------------------------------------------------------
(* lazyCache, lines 86-94: the wrapped function awaits useRedis and calls  *)
(* the backend it selects                                                  *)
\* the calls one behaviour may make
CallBound == IF useRedis THEN MaxRedisCalls ELSE MaxCalls

\* variant of lazyCache: memoryCache(f, timeMs) is built inside the wrapped
\* function, so every call starts from an empty caches object
lazyCache_cachePerCall(a) ==
    /\ Len(calls) < CallBound
    /\ IF useRedis THEN redisCache(a)
       ELSE /\ StartComputation(a, JSON_stringify_args(a),
                                [at |-> Undefined, value |-> Undefined, promise |-> 0])
            /\ UNCHANGED <<now, useRedis, store, lock, renewals>>

lazyCache(a) ==
    /\ Len(calls) < CallBound
    /\ IF useRedis THEN redisCache(a) ELSE memoryCache(a)

----------------------------------------------------------------------------
Next ==
    \/ Tick
    \/ \E a \in Args : lazyCache(a)
    \/ \E p \in 1..MaxCalls, v \in FValues : FResolved(p, v)
    \/ \E p \in 1..MaxCalls : FRejected(p)
    \/ \E r \in 1..MaxRedisCalls : RenewLock(r)
    \/ \E r \in 1..MaxRedisCalls : RenewLockFailed(r)
    \/ \E r \in 1..MaxRedisCalls, v \in FValues : RenewF(r, v)
    \/ \E r \in 1..MaxRedisCalls : RenewFFailed(r)
    \/ \E r \in 1..MaxRedisCalls : RenewSet(r)
    \/ \E r \in 1..MaxRedisCalls : RenewSetFailed(r)
    \/ \E r \in 1..MaxRedisCalls : RenewUnlock(r)

Spec == Init /\ [][Next]_vars

----------------------------------------------------------------------------
(* Properties *)

MemCalls == {i \in DOMAIN calls : calls[i].be = "mem"}
RedisCalls == {i \in DOMAIN calls : calls[i].be = "redis"}

\* C1: memory backend, cold key: every caller that arrives while the first
\* computation of f is in flight holds a promise that follows that
\* computation: it is pending while f runs and resolves to the value f
\* produced, never to anything else.
C1_ColdCallersShareTheResult ==
    \A i \in MemCalls :
        calls[i].seen = "coldInflight" =>
            /\ calls[i].p = calls[i].fl
            /\ \/ calls[i].pc = "await"
               \/ /\ calls[i].pc = "resolved"
                  /\ comps[calls[i].fl].pc = "done"
                  /\ calls[i].ret = comps[calls[i].fl].value

\* C2: memory backend: a call that finds a stale record is resolved at once
\* with the stale record.value, whether it starts the renewal or finds one
\* in flight, and whatever the value is.
C2_StaleServedAtOnce ==
    \A i \in MemCalls :
        calls[i].seen \in {"stale", "staleInflight"} =>
            calls[i].pc = "resolved" /\ calls[i].ret = calls[i].old

\* C3: memory backend: after a renewal's f has failed, a call that finds the
\* record still stale is served the previous value and starts a fresh
\* renewal.
C3_RenewalRetriedAfterFailure ==
    \A i \in MemCalls :
        calls[i].seen = "staleFailed" =>
            /\ calls[i].pc = "resolved"
            /\ calls[i].ret = calls[i].old
            /\ calls[i].started

\* C4: memory backend, cold key: once the first computation of f has failed
\* the in-flight marker is cleared, no record is written, every caller that
\* awaited the computation is rejected, and a later call starts a new
\* computation.
C4_ColdFailureRejectsWaiters ==
    /\ \A p \in DOMAIN comps :
          comps[p].pc = "failed" /\ comps[p].hasOldCache = Undefined =>
              /\ caches[comps[p].key].promise # p
              /\ \A i \in MemCalls : calls[i].p = p => calls[i].pc = "rejected"
    /\ \A i \in MemCalls : calls[i].seen = "coldFailed" => calls[i].started

\* C5: distributed backend, cold key: when the synchronous renewal fails at
\* the lock, in f or at the store write, the caller's promise is rejected.
C5_ColdRenewalFailureRejectsCaller ==
    \A r \in DOMAIN renewals :
        renewals[r].pc = "failed" /\ renewals[r].caller # 0 =>
            calls[renewals[r].caller].pc = "rejected"

\* the renewals of key that are between lock acquisition and lock release
Holders(key) ==
    {r \in DOMAIN renewals :
        /\ renewals[r].key = key
        /\ \/ renewals[r].pc \in {"f", "set", "unlock"}
           \/ renewals[r].pc = "failed" /\ renewals[r].failedAt \in {"f", "set"}}

\* the step is the store write of renewal r
Writes(r) == renewals[r].pc = "set" /\ renewals'[r].pc = "unlock"

C6_State ==
    \A key \in RedisKeys :
        /\ Cardinality(Holders(key)) <= 1
        /\ Holders(key) # {} => lock[key] \in Holders(key)

C6_Step ==
    /\ store' # store => \E r \in DOMAIN renewals : Writes(r)
    /\ \A r \in DOMAIN renewals :
          Writes(r) =>
              /\ lock[renewals[r].key] = r
              /\ lock'[renewals[r].key] = r
              /\ Holders(renewals[r].key) = {r}
              /\ \A q \in DOMAIN renewals :
                    q # r /\ renewals[q].key = renewals[r].key /\ renewals[q].pc # "done"
                        => renewals[q].pc \in {"lock", "failed"} /\ renewals[q].value = Undefined

\* C6: distributed backend, with a lease that does not run out: for every
\* key at most one renewal is between lock acquisition and lock release, every
\* store write is made by the renewal that holds the key's lock, and when a
\* renewal writes, every other renewal of the key that has written has
\* already released the lock (the writes occur in the order of the releases).
C6_MutualExclusion == [](C6_State) /\ [][C6_Step]_vars

\* two renewals of one key have both written and released
C6_Witness ==
    \E r1, r2 \in DOMAIN renewals :
        /\ r1 # r2
        /\ renewals[r1].key = renewals[r2].key
        /\ renewals[r1].pc = "done"
        /\ renewals[r2].pc = "done"

\* C7: memory backend: for every key at most one invocation of f is in
\* flight.
C7_OneComputationInFlight ==
    \A key \in MemKeys :
        Cardinality({p \in DOMAIN comps : comps[p].key = key /\ comps[p].pc = "running"}) <= 1

\* a call has arrived for a key while its computation is still running
C7_Witness ==
    \E i \in MemCalls :
        /\ calls[i].seen \in {"coldInflight", "staleInflight"}
        /\ comps[calls[i].fl].pc = "running"

\* C8: distributed backend: a call that reads a stale record is resolved
\* with the stale value by the step that reads it, its promise follows no
\* renewal, and it stays so whatever becomes of the renewal it started.
C8_StaleState ==
    \A i \in RedisCalls :
        calls[i].seen = "stale" =>
            /\ calls[i].pc = "resolved"
            /\ calls[i].ret = calls[i].old
            /\ calls[i].started
            /\ renewals[calls[i].p].caller = 0

C8_StaleStep ==
    /\ \A i \in RedisCalls : calls[i].seen = "stale" => calls'[i] = calls[i]
    /\ Len(calls') = Len(calls) + 1 =>
          LET c == calls'[Len(calls')] IN
          c.be = "redis" /\ c.seen = "stale" =>
              /\ RedisKey(c.args) \in DOMAIN store
              /\ c.ret = JSON_parse(store[RedisKey(c.args)]).value

C8_StaleServedWhateverTheRenewalDoes == [](C8_StaleState) /\ [][C8_StaleStep]_vars

\* the renewal started by a stale read has failed
C8_Witness ==
    \E i \in RedisCalls :
        /\ calls[i].seen = "stale"
        /\ renewals[calls[i].p].pc = "failed"

C10_Step ==
    Len(calls') = Len(calls) + 1 =>
        LET c == calls'[Len(calls')]
            key == JSON_stringify_args(c.args) IN
        c.be = "mem" /\ key \in DOMAIN caches /\ caches[key].at # Undefined
                     /\ now - caches[key].at <= timeMs =>
            /\ c.pc = "resolved"
            /\ c.ret = caches[key].value
            /\ ~ c.started
            /\ caches' = caches
            /\ comps' = comps

\* C10: memory backend: a call that finds a record with now - at <= timeMs
\* (age = timeMs included) returns record.value, does not invoke f and
\* leaves the record and the in-flight marker as they are.
C10_FreshHitIsARead == [][C10_Step]_vars

\* a call has found a record whose age is exactly timeMs
C10_Witness ==
    \E i \in MemCalls :
        /\ calls[i].seen = "fresh"
        /\ calls[i].t - calls[i].oldAt = timeMs

C11_Step ==
    Len(calls') = Len(calls) + 1 =>
        LET c == calls'[Len(calls')]
            key == RedisKey(c.args) IN
        c.be = "redis" /\ c.pc # "rejected" /\ key \in DOMAIN store
                       /\ now - JSON_parse(store[key]).at <= timeMs =>
            /\ c.pc = "resolved"
            /\ c.ret = JSON_parse(store[key]).value
            /\ ~ c.started
            /\ renewals' = renewals
            /\ store' = store
            /\ lock' = lock

\* C11: distributed backend: a call that reads a record with now - at <=
\* timeMs returns the record's value, starts no renewal (no lock request, no
\* invocation of f, no store write) and leaves the store and the lock as
\* they are.
C11_FreshReadIsARead == [][C11_Step]_vars

\* a call of the distributed backend has read a fresh record
C11_Witness ==
    \E i \in RedisCalls : calls[i].seen = "fresh" /\ calls[i].pc = "resolved"

\* the renewals of the key of renewal r other than r
OtherRenewals(r) ==
    {q \in DOMAIN renewals : q # r /\ renewals[q].key = renewals[r].key}

C12_State ==
    \A r \in DOMAIN renewals :
        renewals[r].caller # 0 /\ OtherRenewals(r) = {} =>
            LET c == calls[renewals[r].caller]
                key == renewals[r].key IN
            /\ renewals[r].pc = "lock" => lock[key] = 0 /\ key \notin DOMAIN store
            /\ renewals[r].pc = "f" => lock[key] = r /\ key \notin DOMAIN store
            /\ renewals[r].pc = "set" => lock[key] = r /\ key \notin DOMAIN store
            /\ renewals[r].pc = "unlock" =>
                  /\ lock[key] = r
                  /\ store[key] = JSON_stringify([at |-> renewals[r].at, value |-> renewals[r].value])
            /\ renewals[r].pc # "done" => c.pc = "await"
            /\ renewals[r].pc = "done" =>
                  /\ lock[key] = 0
                  /\ c.pc = "resolved"
                  /\ c.ret = renewals[r].value
                  /\ JSON_parse(store[key]).value = c.ret
                  /\ JSON_parse(store[key]).at = renewals[r].at

C12_Step ==
    \A r \in DOMAIN renewals :
        renewals'[r].pc # renewals[r].pc =>
            <<renewals[r].pc, renewals'[r].pc>> \in
                {<<"lock", "f">>, <<"f", "set">>, <<"set", "unlock">>, <<"unlock", "done">>,
                 <<"lock", "failed">>, <<"f", "failed">>, <<"set", "failed">>}

\* C12: distributed backend, cold key, one caller: the renewal acquires the
\* lock, then invokes f once, then writes {at, value} to the store, then
\* releases the lock, and the caller's promise resolves, not before, to the
\* value f returned, which is the value stored.
C12_ColdLoadInOrder == [](C12_State) /\ [][C12_Step]_vars

\* a cold call without a concurrent caller has been served
C12_Witness ==
    \E r \in DOMAIN renewals :
        /\ renewals[r].caller # 0
        /\ OtherRenewals(r) = {}
        /\ renewals[r].pc = "done"
        /\ calls[renewals[r].caller].ret = renewals[r].value

C13_State ==
    \A i \in DOMAIN calls : calls[i].be = IF useRedis THEN "redis" ELSE "mem"

C13_Step ==
    /\ useRedis' = useRedis
    /\ Len(calls') = Len(calls) + 1 =>
          LET c == calls'[Len(calls')]
              key == JSON_stringify_args(c.args) IN
          c.be = "mem" =>
              IF key \in DOMAIN caches
              THEN LET e == caches[key] IN
                   /\ c.started => e.at # Undefined /\ now - e.at > timeMs /\ e.promise = 0
                   /\ c.pc = "resolved" => c.ret = e.value
                   /\ c.pc = "await" /\ ~ c.started => c.p = e.promise /\ e.promise # 0
              ELSE c.started

\* C13: the store-availability check has one outcome, every call goes to
\* the backend it selects, and every call of the memory backend acts on the
\* one caches object: what a call does is decided by the entry earlier calls
\* left for its key.
C13_OneBackendOneCache == [](C13_State) /\ [][C13_Step]_vars

\* a call has been served the record that an earlier call's computation wrote
C13_Witness ==
    \E i, j \in MemCalls :
        /\ i < j
        /\ calls[i].args = calls[j].args
        /\ calls[i].started
        /\ comps[calls[i].p].pc = "done"
        /\ calls[j].seen = "fresh"
        /\ calls[j].oldAt = comps[calls[i].p].at
        /\ calls[j].ret = calls[j].old

\* the record that call j found had been written by a renewal that succeeded
FoundRenewedRecord(j) ==
    /\ calls[j].be = "mem"
    /\ calls[j].oldAt # Undefined
    /\ \E p \in DOMAIN comps :
          /\ comps[p].key = JSON_stringify_args(calls[j].args)
          /\ comps[p].pc = "done"
          /\ comps[p].hasOldCache # Undefined
          /\ comps[p].at = calls[j].oldAt

C14_State ==
    \A j \in MemCalls :
        FoundRenewedRecord(j) /\ calls[j].pc = "resolved" => calls[j].ret = calls[j].old

C14_Step ==
    /\ Len(calls') = Len(calls) + 1 =>
          LET c == calls'[Len(calls')]
              key == JSON_stringify_args(c.args) IN
          c.be = "mem" /\ key \in DOMAIN caches /\ caches[key].at # Undefined
                       /\ now - caches[key].at > timeMs /\ caches[key].promise = 0 =>
              /\ Len(comps') = Len(comps) + 1
              /\ caches'[key].promise = Len(comps')
    /\ \A p \in DOMAIN comps :
          comps[p].pc = "running" /\ comps'[p].pc = "done" /\ comps[p].hasOldCache # Undefined =>
              /\ caches'[comps[p].key].at # caches[comps[p].key].at
              /\ caches'[comps[p].key].promise = 0

\* C14: memory backend: a call that finds a stale record and no renewal in
\* flight starts one renewal; when it succeeds the record gets the new value
\* and a new at and the marker is cleared in that step; and a call that
\* finds the renewed record returns its value.
C14_RenewedValueIsServed == [](C14_State) /\ [][C14_Step]_vars

\* the memory calls that started a renewal of an existing record whose f
\* has failed
FailedRenewalStarters ==
    {i \in MemCalls : /\ calls[i].started
                      /\ calls[i].oldAt # Undefined
                      /\ comps[calls[i].p].pc = "failed"}

\* C15: memory backend: after a renewal whose f failed, the key's record
\* has the value and the at it had before the renewal started.
C15_FailedRenewalLeavesRecord ==
    \A i \in FailedRenewalStarters :
        LET key == JSON_stringify_args(calls[i].args) IN
        /\ caches[key].value = calls[i].old
        /\ caches[key].at = calls[i].oldAt

C15_Witness ==
    \E i \in FailedRenewalStarters :
        /\ now > comps[calls[i].p].at
        /\ \E j \in MemCalls : j > i /\ calls[j].args = calls[i].args

\* the renewals started by calls that read 'absent' for key
ColdRenewals(key) ==
    {r \in DOMAIN renewals : renewals[r].key = key /\ renewals[r].caller # 0}

\* renewal r has invoked f and f has returned
Computed(r) == renewals[r].value # Undefined

C16_State ==
    \A key \in RedisKeys :
        \A r1, r2 \in ColdRenewals(key) :
            r1 # r2 =>
                /\ calls[renewals[r1].caller].seen = "absent"
                /\ calls[renewals[r2].caller].seen = "absent"
                /\ ~ (renewals[r1].pc \in {"set", "unlock"} /\ renewals[r2].pc \in {"set", "unlock"})
                /\ renewals[r1].pc = "unlock" =>
                      store[key] = JSON_stringify([at |-> renewals[r1].at,
                                                   value |-> renewals[r1].value])

C16_Step ==
    \A key \in RedisKeys :
        Cardinality(ColdRenewals(key)) > 1 =>
            /\ \A r \in ColdRenewals(key) :
                  Writes(r) =>
                      /\ lock[key] = r
                      /\ store'[key] = JSON_stringify([at |-> renewals[r].at,
                                                       value |-> renewals[r].value])
            /\ (key \in DOMAIN store /\ store'[key] # store[key]) =>
                  \E r \in DOMAIN renewals : renewals[r].key = key /\ Writes(r)

Ended(r) ==
    \/ renewals[r].pc = "done"
    \/ renewals[r].pc = "failed" /\ renewals[r].failedAt \in {"f", "set"}

\* C17: distributed backend: a renewal that acquired the lock and has ended,
\* whether it wrote the record or f or the store write failed, has called
\* unlock: it does not hold the key's lock any more.
C17_LockReleasedOnEveryPath ==
    \A r \in DOMAIN renewals : Ended(r) => lock[renewals[r].key] # r

\* the step is the success of computation p
Succeeds(p) == comps[p].pc = "running" /\ comps'[p].pc = "done"

C18_Step ==
    \A p \in DOMAIN comps :
        Succeeds(p) =>
            /\ caches'[comps[p].key].at = now
            /\ ~ (now - caches'[comps[p].key].at > timeMs)

\* C18: memory backend: the record written when a computation succeeds has
\* at equal to the clock at that moment, so it is not stale when written.
C18_StampedAtSuccess == [][C18_Step]_vars

\* the computations of key whose f has been called and has not settled
InFlight(key) ==
    {p \in DOMAIN comps : comps[p].key = key /\ comps[p].pc = "running"}

C19_State ==
    \A key \in MemKeys :
        \A p \in InFlight(key) : key \in DOMAIN caches /\ caches[key].promise = p

C19_Step ==
    \A key \in MemKeys :
        \A p \in InFlight(key) :
            /\ Len(calls') > Len(calls) => caches'[key] = caches[key] /\ comps'[p] = comps[p]
            /\ caches'[key] # caches[key] =>
                  /\ comps'[p].pc = "done"
                  /\ caches'[key].at = comps[p].at
                  /\ caches'[key].promise = 0

\* C19: memory backend: while a computation for a key is in flight, the
\* key's marker names it, a call of the wrapped function leaves the key's
\* record and marker as they are, and the only step that changes them is the
\* success of that computation.
C19_OnlyTheOwnerWrites == [](C19_State) /\ [][C19_Step]_vars

\* during one renewal of a stale record two calls arrived and found the
\* pre-renewal record, which is still in place
C19_Witness ==
    \E i, j \in MemCalls :
        /\ i < j
        /\ calls[i].started /\ calls[i].seen = "stale"
        /\ calls[j].seen = "staleInflight" /\ calls[j].fl = calls[i].p
        /\ calls[j].args = calls[i].args
        /\ comps[calls[i].p].pc = "running"
        /\ caches[JSON_stringify_args(calls[i].args)] =
              [value |-> calls[i].old, at |-> calls[i].oldAt, promise |-> calls[i].p]

\* the calls of the distributed backend that read a stale or absent record
\* for key
Renewers(key) ==
    {i \in RedisCalls : RedisKey(calls[i].args) = key /\ calls[i].seen \in {"stale", "absent"}}

\* the renewals of key
RenewalsOf(key) == {r \in DOMAIN renewals : renewals[r].key = key}

C20_State ==
    \A key \in RedisKeys :
        /\ \A i \in Renewers(key) : calls[i].p \in RenewalsOf(key)
        /\ \A i, j \in Renewers(key) : i # j => calls[i].p # calls[j].p
        /\ Cardinality(RenewalsOf(key)) = Cardinality(Renewers(key))
        /\ \A r \in RenewalsOf(key) :
              /\ renewals[r].pc \in {"set", "unlock", "done"} => Computed(r)
              /\ renewals[r].pc = "f" => lock[key] = r
        /\ Cardinality({r \in RenewalsOf(key) : renewals[r].pc \in {"f", "set", "unlock"}}) <= 1

C20_Step ==
    \A r \in DOMAIN renewals :
        /\ renewals[r].pc = "lock" /\ lock'[renewals[r].key] = r =>
              renewals'[r].pc = "f" /\ store' = store
        /\ renewals'[r].pc = "done" /\ renewals[r].pc # "done" =>
              /\ renewals[r].pc = "unlock"
              /\ store[renewals[r].key] = JSON_stringify([at |-> renewals[r].at,
                                                          value |-> renewals[r].value])

====
